---- MODULE Spec2Model ----
(***************************************************************************)
(* Route optimisation engine: the shortest-path engine                     *)
(* (calculateShortestPath: Dijkstra over a MinHeap, predecessor walk,      *)
(* optional route cache), the greedy planner (assignDriversToOrders), the  *)
(* route summary (calculateRouteAndETA) and the entry point                *)
(* (optimizeDelivery: validate, load, plan, summarise).                    *)
(*                                                                         *)
(* Node identifiers are JavaScript strings.  The graph, the distance table *)
(* and the predecessor table are plain objects, so a property read finds   *)
(* the object's own keys and, failing that, the members it inherits from   *)
(* Object.prototype.  The route cache is a Map keyed by start + ':' + end. *)
(***************************************************************************)
EXTENDS Integers, Sequences, FiniteSets, TLC

VARIABLES
    graph,            \* the road network passed to the engine / planner
    routeCache,       \* the routeCache argument: null, or a Map shared by calls
    pc,               \* position of the running call
    start,            \* calculateShortestPath: argument start
    end,              \* calculateShortestPath: argument end
    dj,               \* locals of the Dijkstra loop: heap, distances, previous, visited
    result,           \* value returned by the last finished call
    nCalls,           \* calls made so far on this graph / cache
    drivers,          \* assignDriversToOrders: argument drivers (caller's records)
    orders,           \* assignDriversToOrders: argument orders
    availableDrivers, \* the planner's working copies
    assignments,      \* the planner's output list
    orderIdx,         \* index of the order the planner processes next
    inputs,           \* optimizeDelivery: arguments inputs and config.useCache
    optimized         \* optimizeDelivery: the object it returns

vars == <<graph, routeCache, pc, start, end, dj, result, nCalls,
          drivers, orders, availableDrivers, assignments, orderIdx,
          inputs, optimized>>

pathVars == <<graph, routeCache, pc, start, end, dj, result, nCalls>>
planVars == <<drivers, orders, availableDrivers, assignments, orderIdx,
              inputs, optimized>>

(***************************************************************************)
(* Bounds of the model.                                                    *)
(***************************************************************************)
MaxWeight == 2     \* edge weights of the generated graphs range over 0..MaxWeight
MaxCalls == 2      \* calls made on one shared cache
MaxDrivers == 2    \* length of the drivers argument
MaxOrders == 2     \* length of the orders argument
MaxHeapSize == 4   \* entries a MinHeap holds in the heap specification
MaxPriority == 2   \* priorities of the heap specification range over 0..MaxPriority

(***************************************************************************)
(* JavaScript values.                                                      *)
(***************************************************************************)
Infinity == 1000000            \* the number Infinity: above every finite sum here
JsNull == "<null>"             \* null (initial predecessor of every key)
JsUndefined == "<undefined>"   \* undefined (read of a property found nowhere)
JsFunction == "<function>"     \* a function inherited from Object.prototype

\* Names every plain object inherits (Object.prototype.constructor, ...).
ObjectPrototypeProps == {"constructor"}

\* Keys in the order Object.keys / Object.entries enumerates them (insertion
\* order of the graph literal); names that are keys of no graph come last.
NodeOrder == <<"depot", "A", "B", "C", "a", "a:b", "b:c", "c", "unknown", "constructor">>

Names == {NodeOrder[i] : i \in 1..Len(NodeOrder)}

EmptyMap == [k \in {} |-> 0]

RECURSIVE SeqSum(_)
SeqSum(s) == IF s = <<>> THEN 0 ELSE Head(s) + SeqSum(Tail(s))

(***************************************************************************)
(* Graph: keys = the object's own keys, edges = <<from, to, weight>>.      *)
(***************************************************************************)
HasEdge(g, u, v) == \E e \in g.edges : e[1] = u /\ e[2] = v

Weight(g, u, v) == (CHOOSE e \in g.edges : e[1] = u /\ e[2] = v)[3]

\* graph[n] is truthy: n is an own key (a connections object) or inherited.
GraphHas(g, n) == n \in g.keys \/ n \in ObjectPrototypeProps

RECURSIVE EntriesFrom(_, _, _)
EntriesFrom(g, u, i) ==
    IF i > Len(NodeOrder) THEN <<>>
    ELSE IF HasEdge(g, u, NodeOrder[i])
         THEN <<NodeOrder[i]>> \o EntriesFrom(g, u, i + 1)
         ELSE EntriesFrom(g, u, i + 1)

\* Object.entries(graph[current]): the neighbours, in key order; an inherited
\* function has no enumerable own property.
Entries(g, u) == IF u \in g.keys THEN EntriesFrom(g, u, 1) ELSE <<>>

(***************************************************************************)
(* MinHeap: heap is the array (index i of the code is position i + 1),     *)
(* nodeIndices the Map node -> array index.                                *)
(***************************************************************************)
EmptyHeap == [heap |-> <<>>, nodeIndices |-> EmptyMap]

SetIndex(ni, node, i) == (node :> i) @@ ni

DeleteIndex(ni, node) == [n \in (DOMAIN ni) \ {node} |-> ni[n]]

\* mutant: the entries are exchanged, the indices are not updated
HeapSwapEntriesOnly(h, i, j) ==
    [h EXCEPT !.heap = [h.heap EXCEPT ![i + 1] = h.heap[j + 1], ![j + 1] = h.heap[i + 1]]]

\* _swap(i, j)
HeapSwap(h, i, j) ==
    LET a == [h.heap EXCEPT ![i + 1] = h.heap[j + 1], ![j + 1] = h.heap[i + 1]]
    IN [heap |-> a,
        nodeIndices |-> SetIndex(SetIndex(h.nodeIndices, a[i + 1].node, i),
                                 a[j + 1].node, j)]

ParentOf(index) == (index - 1) \div 2

\* mutant: an entry is never moved towards the root
BubbleUpNever(h, index) == h

\* _bubbleUp(index)
RECURSIVE BubbleUp(_, _)
BubbleUp(h, index) ==
    IF index > 0 /\ h.heap[index + 1].priority < h.heap[ParentOf(index) + 1].priority
    THEN BubbleUp(HeapSwap(h, index, ParentOf(index)), ParentOf(index))
    ELSE h

\* mutant: the right child is never looked at
RECURSIVE BubbleDownLeftOnly(_, _)
BubbleDownLeftOnly(h, index) ==
    LET length == Len(h.heap)
        left == 2 * index + 1
        smallest == IF left < length /\ h.heap[left + 1].priority < h.heap[index + 1].priority
                    THEN left ELSE index
    IN IF smallest # index
       THEN BubbleDownLeftOnly(HeapSwap(h, index, smallest), smallest)
       ELSE h

\* _bubbleDown(index)
RECURSIVE BubbleDown(_, _)
BubbleDown(h, index) ==
    LET length == Len(h.heap)
        left == 2 * index + 1
        right == 2 * index + 2
        s1 == IF left < length /\ h.heap[left + 1].priority < h.heap[index + 1].priority
              THEN left ELSE index
        smallest == IF right < length /\ h.heap[right + 1].priority < h.heap[s1 + 1].priority
                    THEN right ELSE s1
    IN IF smallest # index
       THEN BubbleDown(HeapSwap(h, index, smallest), smallest)
       ELSE h

\* mutant: the new entry is appended and not sifted up
HeapInsertNoSift(h, node, priority) ==
    LET a == Append(h.heap, [node |-> node, priority |-> priority])
    IN [heap |-> a, nodeIndices |-> SetIndex(h.nodeIndices, node, Len(a) - 1)]

\* insert(node, priority)
HeapInsert(h, node, priority) ==
    LET a == Append(h.heap, [node |-> node, priority |-> priority])
    IN BubbleUp([heap |-> a, nodeIndices |-> SetIndex(h.nodeIndices, node, Len(a) - 1)],
                Len(a) - 1)

\* mutant: the root is returned but the last entry is the one removed
ExtractMinDropsLast(h) ==
    LET a == h.heap
    IN [min |-> a[1],
        h |-> [heap |-> SubSeq(a, 1, Len(a) - 1),
               nodeIndices |-> DeleteIndex(h.nodeIndices, a[1].node)]]

\* extractMin() on a non-empty heap: [min |-> the entry, h |-> the heap after]
ExtractMin(h) ==
    LET a == h.heap
        min == a[1]
        last == a[Len(a)]
    IN IF Len(a) = 1
       THEN [min |-> min,
             h |-> [heap |-> <<>>, nodeIndices |-> DeleteIndex(h.nodeIndices, min.node)]]
       ELSE LET b == [SubSeq(a, 1, Len(a) - 1) EXCEPT ![1] = last]
                ni == DeleteIndex(SetIndex(h.nodeIndices, last.node, 0), min.node)
            IN [min |-> min, h |-> BubbleDown([heap |-> b, nodeIndices |-> ni], 0)]

\* mutant: the tracked entry is never lowered, a new entry is always added
DecreaseKeyAlwaysInsert(h, node, newPriority) == HeapInsert(h, node, newPriority)

\* decreaseKey(node, newPriority)
DecreaseKey(h, node, newPriority) ==
    IF node \in DOMAIN h.nodeIndices
       /\ newPriority < h.heap[h.nodeIndices[node] + 1].priority
    THEN LET idx == h.nodeIndices[node]
         IN BubbleUp([h EXCEPT !.heap[idx + 1].priority = newPriority], idx)
    ELSE HeapInsert(h, node, newPriority)

IsEmpty(h) == Len(h.heap) = 0

(***************************************************************************)
(* calculateShortestPath.                                                  *)
(***************************************************************************)
NoCache == [present |-> FALSE, map |-> EmptyMap]      \* routeCache = null

NewCache == [present |-> TRUE, map |-> EmptyMap]      \* routeCache = new Map()

Unreachable == [distance |-> Infinity, path |-> <<>>]

NoResult == [distance |-> 0, path |-> <<>>]           \* placeholder: nothing returned yet

\* `${start}:${end}`
CacheKey(s, t) == s \o ":" \o t

CacheHas(c, s, t) == c.present /\ CacheKey(s, t) \in DOMAIN c.map

\* mutant: an unreachable result is not stored
CacheSetFoundOnly(c, s, t, r) ==
    IF c.present /\ r.distance # Infinity
    THEN [c EXCEPT !.map = (CacheKey(s, t) :> r) @@ c.map] ELSE c

\* if (routeCache) routeCache.set(`${start}:${end}`, result)
CacheSet(c, s, t, r) ==
    IF c.present THEN [c EXCEPT !.map = (CacheKey(s, t) :> r) @@ c.map] ELSE c

\* obj[x] on a plain object: own property, else inherited, else undefined
PropOf(obj, x) ==
    IF x \in DOMAIN obj THEN obj[x]
    ELSE IF x \in ObjectPrototypeProps THEN JsFunction
    ELSE JsUndefined

\* lines 45-56: the tables and the heap before the loop
DijkstraInit(g, s) ==
    [heap |-> HeapInsert(EmptyHeap, s, 0),
     distances |-> (s :> 0) @@ [n \in g.keys |-> Infinity],
     previous |-> [n \in g.keys |-> JsNull],
     visited |-> {}]

NoDijkstra == [heap |-> EmptyHeap, distances |-> EmptyMap, previous |-> EmptyMap, visited |-> {}]

\* mutant: a tie with the best-known distance counts as an improvement
ImprovesOrTies(st, neighbor, newDist) ==
    neighbor \in DOMAIN st.distances /\ newDist <= st.distances[neighbor]

\* newDist < distances[neighbor]: false when distances[neighbor] is no number
Improves(st, neighbor, newDist) ==
    neighbor \in DOMAIN st.distances /\ newDist < st.distances[neighbor]

\* mutant: the predecessor is recorded on the first improvement only
RECURSIVE RelaxKeepPrevious(_, _, _, _, _)
RelaxKeepPrevious(g, st, current, currentDist, nbrs) ==
    IF nbrs = <<>> THEN st
    ELSE LET neighbor == Head(nbrs)
             newDist == currentDist + Weight(g, current, neighbor)
             st2 == IF neighbor \notin st.visited /\ Improves(st, neighbor, newDist)
                    THEN [heap |-> DecreaseKey(st.heap, neighbor, newDist),
                          distances |-> (neighbor :> newDist) @@ st.distances,
                          previous |-> IF PropOf(st.previous, neighbor) = JsNull
                                       THEN (neighbor :> current) @@ st.previous
                                       ELSE st.previous,
                          visited |-> st.visited]
                    ELSE st
         IN RelaxKeepPrevious(g, st2, current, currentDist, Tail(nbrs))

\* lines 69-77: the forEach over the entries of graph[current]
RECURSIVE Relax(_, _, _, _, _)
Relax(g, st, current, currentDist, nbrs) ==
    IF nbrs = <<>> THEN st
    ELSE LET neighbor == Head(nbrs)
             newDist == currentDist + Weight(g, current, neighbor)
             st2 == IF neighbor \notin st.visited /\ Improves(st, neighbor, newDist)
                    THEN [heap |-> DecreaseKey(st.heap, neighbor, newDist),
                          distances |-> (neighbor :> newDist) @@ st.distances,
                          previous |-> (neighbor :> current) @@ st.previous,
                          visited |-> st.visited]
                    ELSE st
         IN Relax(g, st2, current, currentDist, Tail(nbrs))

\* line 64: the extracted entry is skipped
IsStale(st, entry) ==
    entry.node \in st.visited \/ entry.priority > st.distances[entry.node]

\* mutant: the extracted node is not added to visited
DijkstraStepNoVisited(g, st) ==
    LET ex == ExtractMin(st.heap)
        st1 == [st EXCEPT !.heap = ex.h]
    IN IF IsStale(st, ex.min) THEN st1
       ELSE Relax(g, st1, ex.min.node, ex.min.priority, Entries(g, ex.min.node))

\* lines 59-78: one iteration of the while loop
DijkstraStep(g, st) ==
    LET ex == ExtractMin(st.heap)
        current == ex.min.node
        currentDist == ex.min.priority
        st1 == [st EXCEPT !.heap = ex.h]
    IN IF IsStale(st, ex.min) THEN st1
       ELSE Relax(g, [st1 EXCEPT !.visited = @ \cup {current}],
                  current, currentDist, Entries(g, current))

\* lines 58-79: the while loop
RECURSIVE DijkstraLoop(_, _)
DijkstraLoop(g, st) ==
    IF IsEmpty(st.heap) THEN st ELSE DijkstraLoop(g, DijkstraStep(g, st))

\* lines 85-89: walk the predecessors back from current, unshifting each.
\* Once current is undefined, previous[undefined] is undefined again and the
\* loop (current !== null) never ends.
RECURSIVE WalkBack(_, _, _)
WalkBack(previous, current, path) ==
    IF current = JsNull THEN [diverges |-> FALSE, path |-> path]
    ELSE IF current = JsUndefined THEN [diverges |-> TRUE, path |-> <<>>]
    ELSE WalkBack(previous, PropOf(previous, current), <<current>> \o path)

\* distance !== Infinity, for distance = distances[end]
DistanceFinite(st, t) == ~(t \in DOMAIN st.distances /\ st.distances[t] = Infinity)

\* mutant: the distance is returned without the reconstructed path
ReconstructDistanceOnly(st, s, t) ==
    IF ~DistanceFinite(st, t) THEN [returns |-> TRUE, result |-> Unreachable]
    ELSE LET w == WalkBack(st.previous, t, <<>>)
         IN IF w.diverges THEN [returns |-> FALSE, result |-> NoResult]
            ELSE [returns |-> TRUE, result |-> [distance |-> st.distances[t], path |-> <<>>]]

\* lines 81-100: [returns, result]; returns = FALSE when the walk never ends
Reconstruct(st, s, t) ==
    IF ~DistanceFinite(st, t) THEN [returns |-> TRUE, result |-> Unreachable]
    ELSE LET w == WalkBack(st.previous, t, <<>>)
         IN IF w.diverges THEN [returns |-> FALSE, result |-> NoResult]
            ELSE IF w.path[1] # s THEN [returns |-> TRUE, result |-> Unreachable]
            ELSE [returns |-> TRUE,
                  result |-> [distance |-> st.distances[t], path |-> w.path]]

\* mutant: the missing-endpoint test comes before the same-node test
EntryMissingFirst(g, s, t, c) ==
    IF CacheHas(c, s, t)
    THEN [immediate |-> TRUE, result |-> c.map[CacheKey(s, t)], cache |-> c]
    ELSE IF ~GraphHas(g, s) \/ ~GraphHas(g, t)
    THEN [immediate |-> TRUE, result |-> Unreachable, cache |-> CacheSet(c, s, t, Unreachable)]
    ELSE IF s = t
    THEN [immediate |-> TRUE, result |-> [distance |-> 0, path |-> <<s>>],
          cache |-> CacheSet(c, s, t, [distance |-> 0, path |-> <<s>>])]
    ELSE [immediate |-> FALSE, result |-> NoResult, cache |-> c]

\* mutant: the cache is not looked at, every call computes and stores
EntryNoProbe(g, s, t, c) ==
    IF s = t
    THEN [immediate |-> TRUE, result |-> [distance |-> 0, path |-> <<s>>],
          cache |-> CacheSet(c, s, t, [distance |-> 0, path |-> <<s>>])]
    ELSE IF ~GraphHas(g, s) \/ ~GraphHas(g, t)
    THEN [immediate |-> TRUE, result |-> Unreachable, cache |-> CacheSet(c, s, t, Unreachable)]
    ELSE [immediate |-> FALSE, result |-> NoResult, cache |-> c]

\* lines 23-42: the exits before the loop; immediate = FALSE when Dijkstra runs
Entry(g, s, t, c) ==
    IF CacheHas(c, s, t)
    THEN [immediate |-> TRUE, result |-> c.map[CacheKey(s, t)], cache |-> c]
    ELSE IF s = t
    THEN [immediate |-> TRUE, result |-> [distance |-> 0, path |-> <<s>>],
          cache |-> CacheSet(c, s, t, [distance |-> 0, path |-> <<s>>])]
    ELSE IF ~GraphHas(g, s) \/ ~GraphHas(g, t)
    THEN [immediate |-> TRUE, result |-> Unreachable, cache |-> CacheSet(c, s, t, Unreachable)]
    ELSE [immediate |-> FALSE, result |-> NoResult, cache |-> c]

\* calculateShortestPath(graph, start, end, routeCache) as one call:
\* [returns, result, cache]
calculateShortestPath(g, s, t, c) ==
    LET e == Entry(g, s, t, c)
    IN IF e.immediate THEN [returns |-> TRUE, result |-> e.result, cache |-> e.cache]
       ELSE LET r == Reconstruct(DijkstraLoop(g, DijkstraInit(g, s)), s, t)
            IN [returns |-> r.returns, result |-> r.result,
                cache |-> IF r.returns THEN CacheSet(c, s, t, r.result) ELSE c]

(***************************************************************************)
(* Reference: the least total weight of a directed path, by relaxing every  *)
(* edge between keys Cardinality(keys) - 1 times (independent of the heap). *)
(***************************************************************************)
SetMin(S) == CHOOSE x \in S : \A y \in S : x <= y

RECURSIVE RelaxAll(_, _, _)
RelaxAll(g, s, k) ==
    IF k = 0 THEN [v \in g.keys |-> IF v = s THEN 0 ELSE Infinity]
    ELSE LET d == RelaxAll(g, s, k - 1)
         IN [v \in g.keys |->
               SetMin({d[v]} \cup {d[e[1]] + e[3] :
                          e \in {x \in g.edges : x[2] = v /\ x[1] \in g.keys
                                                 /\ d[x[1]] < Infinity}})]

MinPathWeight(g, s, t) == RelaxAll(g, s, Cardinality(g.keys) - 1)[t]

\* p is a directed path of g from s to t
IsPath(g, p, s, t) ==
    /\ Len(p) >= 1 /\ p[1] = s /\ p[Len(p)] = t
    /\ \A i \in 1..(Len(p) - 1) : HasEdge(g, p[i], p[i + 1])

PathWeight(g, p) == SeqSum([i \in 1..(Len(p) - 1) |-> Weight(g, p[i], p[i + 1])])

(***************************************************************************)
(* Inputs of the shortest-path specification: graphs over depot, A, B, C,  *)
(* each candidate edge absent or weighted within 0..MaxWeight; C is a key  *)
(* of the graph or only the target of edges.                               *)
(***************************************************************************)
GenEdges ==
    << [from |-> "depot", to |-> "A", w |-> 0..MaxWeight],
       [from |-> "depot", to |-> "B", w |-> -1..MaxWeight],
       [from |-> "depot", to |-> "C", w |-> {-1, MaxWeight}],
       [from |-> "A", to |-> "B", w |-> -1..MaxWeight],
       [from |-> "B", to |-> "A", w |-> -1..MaxWeight],
       [from |-> "B", to |-> "C", w |-> {-1, 0, MaxWeight}] >>

\* a choice of weight per candidate edge, -1 for an absent edge
GenWeights ==
    {f \in [DOMAIN GenEdges -> -1..MaxWeight] : \A i \in DOMAIN GenEdges : f[i] \in GenEdges[i].w}

MkGraph(f, cIsKey) ==
    [keys |-> IF cIsKey THEN {"depot", "A", "B", "C"} ELSE {"depot", "A", "B"},
     edges |-> {<<GenEdges[i].from, GenEdges[i].to, f[i]>> :
                   i \in {j \in DOMAIN GenEdges : f[j] >= 0}}]

GenGraphs == {MkGraph(f, k) : f \in GenWeights, k \in BOOLEAN}

QueryNames == {"depot", "A", "B", "C", "unknown", "constructor"}

NoPlan == <<>>

\* optimizeDelivery is not the entry point of the run
NoInputs ==
    [present |-> FALSE, drivers |-> <<>>, orders |-> <<>>,
     graph |-> [keys |-> {}, edges |-> {}], useCache |-> FALSE]

\* optimizeDelivery has returned nothing
NoOutput ==
    [assignments |-> <<>>,
     summary |-> [totalDrivers |-> 0, totalOrders |-> 0, assignedOrders |-> 0,
                  averageETA |-> 0, cacheHits |-> 0]]

PlanIdle ==
    /\ drivers = NoPlan /\ orders = NoPlan /\ availableDrivers = NoPlan
    /\ assignments = NoPlan /\ orderIdx = 0
    /\ inputs = NoInputs /\ optimized = NoOutput

(***************************************************************************)
(* Spec: one calculateShortestPath call at a time, run step by step, with  *)
(* routeCache = null (the default argument).                               *)
(***************************************************************************)
Init ==
    /\ graph \in GenGraphs
    /\ routeCache = NoCache
    /\ pc = "idle" /\ start = "" /\ end = "" /\ dj = NoDijkstra
    /\ result = NoResult /\ nCalls = 0
    /\ PlanIdle

\* lines 23-56
Call(s, t, c) ==
    /\ pc = "idle"
    /\ start' = s /\ end' = t
    /\ LET e == Entry(graph, s, t, c)
       IN IF e.immediate
          THEN /\ pc' = "done" /\ result' = e.result /\ routeCache' = e.cache
               /\ dj' = NoDijkstra
          ELSE /\ pc' = "loop" /\ result' = NoResult /\ routeCache' = c
               /\ dj' = DijkstraInit(graph, s)
    /\ UNCHANGED <<graph, nCalls>> /\ UNCHANGED planVars

\* lines 58-79, one iteration
Step ==
    /\ pc = "loop" /\ ~IsEmpty(dj.heap)
    /\ dj' = DijkstraStep(graph, dj)
    /\ UNCHANGED <<graph, routeCache, pc, start, end, result, nCalls>>
    /\ UNCHANGED planVars

\* lines 81-102; the call hangs when the predecessor walk never ends
Finish ==
    /\ pc = "loop" /\ IsEmpty(dj.heap)
    /\ LET r == Reconstruct(dj, start, end)
       IN IF r.returns
          THEN /\ pc' = "done" /\ result' = r.result
               /\ routeCache' = CacheSet(routeCache, start, end, r.result)
          ELSE /\ pc' = "hung" /\ UNCHANGED <<result, routeCache>>
    /\ UNCHANGED <<graph, start, end, dj, nCalls>> /\ UNCHANGED planVars

\* the caller takes the result; the next call starts from scratch
Return ==
    /\ pc = "done"
    /\ pc' = "idle" /\ start' = "" /\ end' = "" /\ dj' = NoDijkstra
    /\ result' = NoResult /\ routeCache' = NoCache
    /\ UNCHANGED <<graph, nCalls>> /\ UNCHANGED planVars

Next ==
    \/ \E s \in QueryNames, t \in QueryNames : Call(s, t, NoCache)
    \/ Step
    \/ Finish
    \/ Return

Spec == Init /\ [][Next]_vars

(***************************************************************************)
(* Properties of one call (Spec).                                          *)
(***************************************************************************)
BothKeys == start \in graph.keys /\ end \in graph.keys

C3_SameNodeZero ==
    (pc # "idle" /\ start = end) =>
        pc = "done" /\ result = [distance |-> 0, path |-> <<start>>]

C3_Witness == pc = "done" /\ start = end /\ start \notin graph.keys

\* C4 (as claimed, for distinct endpoints): a call in which an endpoint is no
\* key of the graph returns the unreachable result.
C4_MissingEndpointUnreachable ==
    (pc # "idle" /\ start # end /\ ~BothKeys) =>
        /\ pc # "hung"
        /\ pc = "done" => result = Unreachable

(***************************************************************************)
(* SpecCache: calls made one after another on one graph, each either with  *)
(* the one shared Map or with routeCache = null.  Node names here include  *)
(* names that contain the ':' of the cache key.                            *)
(***************************************************************************)
CacheEdges ==
    {<<"a:b", "c", 1>>, <<"a", "b:c", 2>>, <<"a", "c", 1>>, <<"c", "b:c", 0>>}

CacheGraphs == {[keys |-> {"a", "a:b", "b:c", "c"}, edges |-> E] : E \in SUBSET CacheEdges}

CachePairs ==
    {<<"a:b", "c">>, <<"a", "b:c">>, <<"a", "c">>, <<"c", "a">>, <<"a", "a">>,
     <<"a", "constructor">>, <<"unknown", "c">>}

InitCache ==
    /\ graph \in CacheGraphs
    /\ routeCache = NewCache
    /\ pc = "idle" /\ start = "" /\ end = "" /\ dj = NoDijkstra
    /\ result = NoResult /\ nCalls = 0
    /\ PlanIdle

\* calculateShortestPath(graph, s, t, c), start to end; a call that does not
\* return leaves the program in its loop for ever
WholeCall(s, t, c) ==
    /\ pc \in {"idle", "done"} /\ nCalls < MaxCalls
    /\ nCalls' = nCalls + 1
    /\ start' = s /\ end' = t
    /\ LET r == calculateShortestPath(graph, s, t, c)
       IN /\ pc' = IF r.returns THEN "done" ELSE "hung"
          /\ result' = r.result
          /\ routeCache' = IF c.present THEN r.cache ELSE routeCache
    /\ UNCHANGED <<graph, dj>> /\ UNCHANGED planVars

CachedCall == \E q \in CachePairs : WholeCall(q[1], q[2], routeCache)

PlainCall == \E q \in CachePairs : WholeCall(q[1], q[2], NoCache)

NextCache == CachedCall \/ PlainCall

SpecCache == InitCache /\ [][NextCache]_vars

\* names reachable from the names in S along edges of g
RECURSIVE ReachableFrom(_, _)
ReachableFrom(g, S) ==
    LET T == S \cup {e[2] : e \in {x \in g.edges : x[1] \in S}}
    IN IF T = S THEN S ELSE ReachableFrom(g, T)

HasPath(g, s, t) == t \in ReachableFrom(g, {s})

\* C5 (as claimed): every call for a pair that no directed path connects
\* returns distance Infinity and the empty path, with or without the cache.
C5_UnreachableStable ==
    (pc \in {"done", "hung"} /\ ~HasPath(graph, start, end)) =>
        pc = "done" /\ result = Unreachable

\* C6 (as claimed): every call, made with the shared cache or without, ends
\* as the same call made with no cache ends.
C6_CacheTransparent ==
    /\ pc = "done" =>
          LET r == calculateShortestPath(graph, start, end, NoCache)
          IN r.returns /\ result = r.result
    /\ pc = "hung" => ~calculateShortestPath(graph, start, end, NoCache).returns

(***************************************************************************)
(* assignDriversToOrders.                                                  *)
(* A driver is [currentLocation, capacity, availability]; "" stands for an *)
(* absent currentLocation.  An order is [destination, size, priority]; 0   *)
(* stands for an absent size or priority.  A working copy carries the      *)
(* _tempPath property as tempSet / tempPath, and own tells whether it is   *)
(* an object of its own or the caller's record itself.  An assignment      *)
(* refers to its working driver and its order by their positions.          *)
(***************************************************************************)
\* driver.currentLocation || 'depot'
LocationOf(driver) == IF driver.currentLocation = "" THEN "depot" ELSE driver.currentLocation

\* order.size || 0
SizeOf(order) == order.size

\* mutant: max(priority, 1) in place of priority || 1
PriorityOfClamped(order) == IF order.priority > 1 THEN order.priority ELSE 1

\* order.priority || 1
PriorityOf(order) == IF order.priority = 0 THEN 1 ELSE order.priority

\* mutant: [...drivers] alone, the elements are the caller's objects
CloneDriversArrayOnly(ds) ==
    [i \in DOMAIN ds |->
        [currentLocation |-> ds[i].currentLocation, capacity |-> ds[i].capacity,
         availability |-> ds[i].availability, tempSet |-> FALSE, tempPath |-> <<>>,
         own |-> FALSE]]

\* line 121: [...drivers].map(d => ({ ...d })): every element is an object of
\* its own (own = TRUE) holding the fields of the caller's record
CloneDrivers(ds) ==
    [i \in DOMAIN ds |->
        [currentLocation |-> ds[i].currentLocation, capacity |-> ds[i].capacity,
         availability |-> ds[i].availability, tempSet |-> FALSE, tempPath |-> <<>>,
         own |-> TRUE]]

\* the caller's records after the planner wrote to its working elements: a
\* write reaches the caller's record only through an element that is that
\* very object
CallerDrivers(ds, working) ==
    [i \in DOMAIN ds |->
        IF working[i].own THEN ds[i]
        ELSE [ds[i] EXCEPT !.capacity = working[i].capacity,
                           !.availability = working[i].availability]]

\* mutant: the capacity test is missing
FeasibleAnyCapacity(driver, order) == driver.availability

\* mutant: the availability test is missing
FeasibleIgnoringAvailability(driver, order) == ~(driver.capacity < SizeOf(order))

\* line 133, negated: the driver is scanned
Feasible(driver, order) == driver.availability /\ ~(driver.capacity < SizeOf(order))

\* mutant: a later driver at the same distance replaces the best one
NearerOrEqual(distance, bestDistance) ==
    distance <= bestDistance /\ distance < Infinity

\* line 140
Nearer(distance, bestDistance) == distance < bestDistance

NoBest(ds, c) ==
    [ds |-> ds, bestIndex |-> 0, bestDistance |-> Infinity, cache |-> c, hung |-> FALSE]

\* lines 131-147: the scan of the working drivers from position i on;
\* bestIndex 0 is bestDriver = null; hung when a shortest-path call never returns
RECURSIVE Scan(_, _, _, _)
Scan(g, order, i, acc) ==
    IF acc.hung \/ i > Len(acc.ds) THEN acc
    ELSE IF ~Feasible(acc.ds[i], order) THEN Scan(g, order, i + 1, acc)
    ELSE LET r == calculateShortestPath(g, LocationOf(acc.ds[i]), order.destination, acc.cache)
         IN IF ~r.returns THEN [acc EXCEPT !.hung = TRUE]
            ELSE IF Nearer(r.result.distance, acc.bestDistance)
            THEN Scan(g, order, i + 1,
                      [ds |-> [acc.ds EXCEPT ![i].tempSet = TRUE,
                                             ![i].tempPath = r.result.path],
                       bestIndex |-> i, bestDistance |-> r.result.distance,
                       cache |-> r.cache, hung |-> FALSE])
            ELSE Scan(g, order, i + 1, [acc EXCEPT !.cache = r.cache])

\* line 153: distance + 10 / priority (priorities here divide 10)
Score(distance, order) == distance + (10 \div PriorityOf(order))

\* lines 155-161
NewAssignment(sc, k, order) ==
    [driver |-> sc.bestIndex, order |-> k,
     assignmentScore |-> Score(sc.bestDistance, order),
     distance |-> sc.bestDistance,
     route |-> IF sc.ds[sc.bestIndex].tempSet THEN sc.ds[sc.bestIndex].tempPath
               ELSE <<LocationOf(sc.ds[sc.bestIndex]), order.destination>>]

\* mutant: the assigned driver keeps its availability and its capacity
MarkAssignedCleanupOnly(driver, order) ==
    [driver EXCEPT !.tempSet = FALSE, !.tempPath = <<>>]

\* mutant: the driver stays available after an assignment
MarkAssignedStillAvailable(driver, order) ==
    [driver EXCEPT !.capacity = @ - SizeOf(order), !.tempSet = FALSE, !.tempPath = <<>>]

\* mutant: the driver stays available while capacity is left
MarkAssignedWhileCapacity(driver, order) ==
    [driver EXCEPT !.availability = (driver.capacity - SizeOf(order) > 0),
                   !.capacity = @ - SizeOf(order),
                   !.tempSet = FALSE, !.tempPath = <<>>]

\* lines 163-166
MarkAssigned(driver, order) ==
    [driver EXCEPT !.availability = FALSE, !.capacity = @ - SizeOf(order),
                   !.tempSet = FALSE, !.tempPath = <<>>]

\* line 149
Assignable(sc) == sc.bestIndex # 0 /\ sc.bestDistance # Infinity

\* lines 125-169 from the order at position k on; st = [ds, assignments,
\* cache, hung]
RECURSIVE PlanFrom(_, _, _, _)
\* lines 149-169 for the order at position k, sc being the outcome of its scan
AfterScan(g, os, k, st, sc) ==
    IF sc.hung THEN [st EXCEPT !.hung = TRUE]
    ELSE IF Assignable(sc)
    THEN PlanFrom(g, os, k + 1,
             [ds |-> [sc.ds EXCEPT ![sc.bestIndex] = MarkAssigned(@, os[k])],
              assignments |-> Append(st.assignments, NewAssignment(sc, k, os[k])),
              cache |-> sc.cache, hung |-> FALSE])
    ELSE PlanFrom(g, os, k + 1,
             [ds |-> sc.ds, assignments |-> st.assignments,
              cache |-> sc.cache, hung |-> FALSE])

PlanFrom(g, os, k, st) ==
    IF st.hung \/ k > Len(os) THEN st
    ELSE AfterScan(g, os, k, st, Scan(g, os[k], 1, NoBest(st.ds, st.cache)))

\* assignDriversToOrders(drivers, orders, graph, routeCache) as one call:
\* [ds (the working copies), assignments, cache, hung]
assignDriversToOrders(ds, os, g, c) ==
    PlanFrom(g, os, 1, [ds |-> CloneDrivers(ds), assignments |-> <<>>,
                        cache |-> c, hung |-> FALSE])

(***************************************************************************)
(* calculateRouteAndETA and optimizeDelivery.                              *)
(***************************************************************************)
speedKmh == 30

\* Math.round(n / d) for d > 0: the nearest integer, a half going up
MathRound(n, d) == (2 * n + d) \div (2 * d)

\* lines 190-208: the returned object built from pathResult, r being the
\* call of line 189; estimatedArrival (a clock reading) is left out
RouteInfo(r) ==
    [returns |-> r.returns,
     info |-> [route |-> IF Len(r.result.path) > 0 THEN r.result.path ELSE <<>>,
               distance |-> IF r.result.distance # Infinity THEN r.result.distance ELSE 0,
               eta |-> IF r.result.distance # Infinity
                       THEN MathRound(r.result.distance * 60, speedKmh) ELSE 0,
               isUnreachable |-> (r.result.distance = Infinity)],
     cache |-> r.cache]

\* mutant: the route is asked from the depot, whatever the driver's location
calculateRouteAndETAFromDepot(driver, order, g, c) ==
    RouteInfo(calculateShortestPath(g, "depot", order.destination, c))

\* calculateRouteAndETA(driver, order, graph, routeCache) as one call:
\* [returns, info, cache]
calculateRouteAndETA(driver, order, g, c) ==
    RouteInfo(calculateShortestPath(g, LocationOf(driver), order.destination, c))

\* A capacity or an edge weight of the inputs is any JavaScript value:
\* typeof is the result of typeof, value the number when it is one, nan
\* tells the number NaN.
Num(n) == [typeof |-> "number", value |-> n, nan |-> FALSE]

NaN == [typeof |-> "number", value |-> 0, nan |-> TRUE]

\* a string such as "5"
NumericString == [typeof |-> "string", value |-> 0, nan |-> FALSE]

\* an absent property
Absent == [typeof |-> "undefined", value |-> 0, nan |-> FALSE]

\* null
NullValue == [typeof |-> "object", value |-> 0, nan |-> FALSE]

\* JSON.parse(JSON.stringify(v)) of a value: NaN and the infinities are
\* written as null; an absent property stays absent
JsonValue(v) ==
    IF v.typeof = "number" /\ (v.nan \/ v.value = Infinity \/ v.value = -Infinity)
    THEN NullValue ELSE v

\* input.js lines 11-13: deepClone(inputs)
deepClone(in) ==
    [in EXCEPT !.drivers = [i \in DOMAIN @ |-> [@[i] EXCEPT !.capacity = JsonValue(@)]],
               !.graph.edges = {<<e[1], e[2], JsonValue(e[3])>> : e \in @}]

\* v <= n and v < n for a value of type number: every comparison with NaN
\* is false
NumLeq(v, n) == ~v.nan /\ v.value <= n

NumLess(v, n) == ~v.nan /\ v.value < n

\* mutant: the capacity is only tested to be of type number
CapacityTypeOnly(v) == v.typeof = "number"

\* validator.js line 100, negated
CapacityAccepted(v) == ~(v.typeof # "number" \/ NumLeq(v, 0))

\* validator.js line 147, negated
WeightAccepted(v) == ~(v.typeof # "number" \/ NumLess(v, 0))

\* validator.js lines 81-158: TRUE when validateInputs throws nothing
validateInputs(in) ==
    /\ Len(in.drivers) > 0
    /\ \A i \in DOMAIN in.drivers : CapacityAccepted(in.drivers[i].capacity)
    /\ Len(in.orders) > 0
    /\ \A k \in DOMAIN in.orders : in.orders[k].destination # ""
    /\ in.graph.keys # {}
    /\ \A e \in in.graph.edges : WeightAccepted(e[3])
    /\ \E e \in in.graph.edges : e[1] \in in.graph.keys

\* input.js lines 21-37: an absent currentLocation becomes 'depot'; the
\* capacity, a number once validated, is kept
loadDrivers(ds) ==
    [i \in DOMAIN ds |->
        [ds[i] EXCEPT !.currentLocation = IF @ = "" THEN "depot" ELSE @,
                      !.capacity = @.value]]

DefaultSize == 10

\* input.js lines 45-61: an absent priority becomes 1, an absent size 10
loadOrders(os) ==
    [k \in DOMAIN os |->
        [os[k] EXCEPT !.priority = IF @ = 0 THEN 1 ELSE @,
                      !.size = IF @ = 0 THEN DefaultSize ELSE @]]

\* input.js lines 70-84: a graph without depot gets depot: {}
loadRoadGraph(g) ==
    [keys |-> g.keys \cup {"depot"},
     edges |-> {<<e[1], e[2], e[3].value>> : e \in g.edges}]

\* index.js lines 52-58: the map over the assignments from position k on;
\* acc = [out, cache, hung]
RECURSIVE SummarizeFrom(_, _, _, _, _, _)
\* lines 53-57 for the assignment at position k, r being its route call
WithRoute(g, ds, os, as, k, acc, r) ==
    IF ~r.returns THEN [acc EXCEPT !.hung = TRUE]
    ELSE SummarizeFrom(g, ds, os, as, k + 1,
             [out |-> Append(acc.out,
                         [driver |-> as[k].driver, order |-> as[k].order,
                          assignmentScore |-> as[k].assignmentScore,
                          distance |-> r.info.distance, route |-> r.info.route,
                          eta |-> r.info.eta,
                          isUnreachable |-> r.info.isUnreachable]),
              cache |-> r.cache, hung |-> FALSE])

SummarizeFrom(g, ds, os, as, k, acc) ==
    IF acc.hung \/ k > Len(as) THEN acc
    ELSE WithRoute(g, ds, os, as, k, acc,
                   calculateRouteAndETA(ds[as[k].driver], os[as[k].order], g, acc.cache))

\* index.js lines 75-79
calculateAverageETA(as) ==
    IF Len(as) = 0 THEN 0
    ELSE MathRound(SeqSum([k \in DOMAIN as |-> as[k].eta]), Len(as))

\* routeCache.size
CacheSize(c) == Cardinality(DOMAIN c.map)

(***************************************************************************)
(* Inputs of the planner specification.                                    *)
(***************************************************************************)
PlanGraph ==
    [keys |-> {"depot", "A", "B", "C"},
     edges |-> {<<"depot", "A", 10>>, <<"depot", "B", 25>>, <<"depot", "C", 40>>,
                <<"A", "depot", 10>>, <<"A", "B", 15>>, <<"A", "C", 30>>,
                <<"B", "depot", 25>>, <<"B", "A", 15>>, <<"B", "C", 20>>,
                <<"C", "depot", 40>>, <<"C", "A", 30>>, <<"C", "B", 20>>}]

DriverPool ==
    {[currentLocation |-> "", capacity |-> 100, availability |-> TRUE],
     [currentLocation |-> "B", capacity |-> 25, availability |-> TRUE],
     [currentLocation |-> "B", capacity |-> 100, availability |-> TRUE],
     [currentLocation |-> "C", capacity |-> 100, availability |-> FALSE]}

OrderPool ==
    {[destination |-> "A", size |-> 20, priority |-> 2],
     [destination |-> "C", size |-> 0, priority |-> 0],
     [destination |-> "B", size |-> 30, priority |-> -2],
     [destination |-> "unknown", size |-> 20, priority |-> 1],
     [destination |-> "constructor", size |-> 20, priority |-> 1]}

SeqsUpTo(S, n) == UNION {[1..k -> S] : k \in 1..n}

\* inputs of optimizeDelivery: node names with and without ':'; a:b has no
\* connection; the graph has no depot key; one driver has no currentLocation;
\* one order has no destination; some drivers have no positive numeric
\* capacity; in some graphs the weight of the edge from a to c is negative or
\* is no number
OptimizeGraphWith(w) ==
    [keys |-> {"a", "a:b", "b:c", "c"},
     edges |-> {<<"a", "b:c", Num(2)>>, <<"a", "c", w>>, <<"c", "a", Num(4)>>}]

OptimizeGraphs ==
    {OptimizeGraphWith(w) : w \in {Num(4), Num(-1), NaN, NumericString}}

OptimizeDrivers ==
    {[currentLocation |-> "a", capacity |-> Num(50), availability |-> TRUE],
     [currentLocation |-> "a:b", capacity |-> Num(50), availability |-> TRUE],
     [currentLocation |-> "", capacity |-> Num(50), availability |-> TRUE],
     [currentLocation |-> "a", capacity |-> Num(0), availability |-> TRUE],
     [currentLocation |-> "a", capacity |-> NaN, availability |-> TRUE],
     [currentLocation |-> "a", capacity |-> Absent, availability |-> TRUE]}

OptimizeOrders ==
    {[destination |-> "b:c", size |-> 10, priority |-> 1],
     [destination |-> "c", size |-> 0, priority |-> 0],
     [destination |-> "", size |-> 10, priority |-> 1]}

NoGraph == [keys |-> {}, edges |-> {}]

(***************************************************************************)
(* SpecAssign: one run of assignDriversToOrders, an order per step.        *)
(***************************************************************************)
InitAssign ==
    /\ \/ /\ graph = PlanGraph
          /\ routeCache \in {NoCache, NewCache}
          /\ drivers \in SeqsUpTo(DriverPool, MaxDrivers)
          /\ orders \in SeqsUpTo(OrderPool, MaxOrders)
          /\ inputs = NoInputs
       \/ /\ graph = NoGraph /\ routeCache = NoCache
          /\ drivers = NoPlan /\ orders = NoPlan
          /\ inputs \in [present : {TRUE},
                         drivers : SeqsUpTo(OptimizeDrivers, MaxDrivers),
                         orders : SeqsUpTo(OptimizeOrders, MaxOrders),
                         graph : OptimizeGraphs, useCache : BOOLEAN]
    /\ availableDrivers = NoPlan /\ assignments = NoPlan /\ orderIdx = 0
    /\ optimized = NoOutput
    /\ pc = "idle" /\ start = "" /\ end = "" /\ dj = NoDijkstra
    /\ result = NoResult /\ nCalls = 0

\* lines 119-122
AssignStart ==
    /\ pc = "idle" /\ ~inputs.present
    /\ availableDrivers' = CloneDrivers(drivers)
    /\ assignments' = <<>>
    /\ orderIdx' = 1
    /\ pc' = "orders"
    /\ UNCHANGED <<graph, routeCache, start, end, dj, result, nCalls, drivers, orders,
                   inputs, optimized>>

\* mutant: the orders are taken from the last to the first
ProcessOrderReversed ==
    /\ pc = "orders" /\ orderIdx <= Len(orders)
    /\ \E k \in {Len(orders) + 1 - orderIdx} :
       \E sc \in {Scan(graph, orders[k], 1, NoBest(availableDrivers, routeCache))} :
          IF sc.hung
          THEN /\ pc' = "hung"
               /\ UNCHANGED <<routeCache, availableDrivers, assignments, orderIdx>>
          ELSE /\ routeCache' = sc.cache
               /\ orderIdx' = orderIdx + 1
               /\ pc' = pc
               /\ IF Assignable(sc)
                  THEN /\ assignments' = Append(assignments, NewAssignment(sc, k, orders[k]))
                       /\ availableDrivers' =
                              [sc.ds EXCEPT ![sc.bestIndex] = MarkAssigned(@, orders[k])]
                  ELSE /\ assignments' = assignments
                       /\ availableDrivers' = sc.ds
    /\ drivers' = CallerDrivers(drivers, availableDrivers')
    /\ UNCHANGED <<graph, start, end, dj, result, nCalls, orders, inputs, optimized>>

\* lines 125-169: the loop body for the order at orderIdx
ProcessOrder ==
    /\ pc = "orders" /\ orderIdx <= Len(orders)
    /\ \E sc \in {Scan(graph, orders[orderIdx], 1, NoBest(availableDrivers, routeCache))} :
       LET order == orders[orderIdx]
       IN IF sc.hung
          THEN /\ pc' = "hung"
               /\ UNCHANGED <<routeCache, availableDrivers, assignments, orderIdx>>
          ELSE /\ routeCache' = sc.cache
               /\ orderIdx' = orderIdx + 1
               /\ pc' = pc
               /\ IF Assignable(sc)
                  THEN /\ assignments' = Append(assignments, NewAssignment(sc, orderIdx, order))
                       /\ availableDrivers' =
                              [sc.ds EXCEPT ![sc.bestIndex] = MarkAssigned(@, order)]
                  ELSE /\ assignments' = assignments
                       /\ availableDrivers' = sc.ds
    /\ drivers' = CallerDrivers(drivers, availableDrivers')
    /\ UNCHANGED <<graph, start, end, dj, result, nCalls, orders, inputs, optimized>>

\* line 171
AssignReturn ==
    /\ pc = "orders" /\ orderIdx > Len(orders)
    /\ pc' = "returned"
    /\ UNCHANGED <<graph, routeCache, start, end, dj, result, nCalls>>
    /\ UNCHANGED planVars

\* index.js lines 22-49, then optimizer.js lines 119-122: optimizeDelivery up
\* to the first order of its assignDriversToOrders call; the arguments of
\* that call are the loaders' copies of a deep clone of inputs
OptimizeStart ==
    /\ pc = "idle" /\ inputs.present
    /\ IF validateInputs(deepClone(inputs))
       THEN /\ drivers' = loadDrivers(deepClone(inputs).drivers)
            /\ orders' = loadOrders(deepClone(inputs).orders)
            /\ graph' = loadRoadGraph(deepClone(inputs).graph)
            /\ routeCache' = IF inputs.useCache THEN NewCache ELSE NoCache
            /\ availableDrivers' = CloneDrivers(drivers')
            /\ assignments' = <<>>
            /\ orderIdx' = 1
            /\ pc' = "orders"
       ELSE /\ pc' = "threw"
            /\ UNCHANGED <<graph, routeCache, drivers, orders, availableDrivers,
                           assignments, orderIdx>>
    /\ UNCHANGED <<start, end, dj, result, nCalls, inputs, optimized>>

\* validateInputs(inputs) called by itself (index.js exports it)
ValidateCall ==
    /\ pc = "idle" /\ inputs.present
    /\ pc' = IF validateInputs(inputs) THEN "validated" ELSE "invalid"
    /\ UNCHANGED <<graph, routeCache, start, end, dj, result, nCalls>>
    /\ UNCHANGED planVars

\* index.js lines 52-69: route, distance and ETA of every assignment, and
\* the summary
Summarize ==
    /\ pc = "returned" /\ inputs.present
    /\ \E s \in {SummarizeFrom(graph, availableDrivers, orders, assignments, 1,
                                [out |-> <<>>, cache |-> routeCache, hung |-> FALSE])} :
          IF s.hung
          THEN /\ pc' = "hung" /\ UNCHANGED <<routeCache, optimized>>
          ELSE /\ pc' = "optimized"
               /\ routeCache' = s.cache
               /\ optimized' =
                     [assignments |-> s.out,
                      summary |->
                         [totalDrivers |-> Len(drivers), totalOrders |-> Len(orders),
                          assignedOrders |-> Len(s.out),
                          averageETA |-> calculateAverageETA(s.out),
                          cacheHits |-> IF inputs.useCache THEN CacheSize(s.cache) ELSE 0]]
    /\ UNCHANGED <<graph, start, end, dj, result, nCalls, drivers, orders,
                   availableDrivers, assignments, orderIdx, inputs>>

NextAssign ==
    AssignStart \/ OptimizeStart \/ ValidateCall \/ ProcessOrder \/ AssignReturn \/ Summarize

SpecAssign == InitAssign /\ [][NextAssign]_vars

(***************************************************************************)
(* Properties of a planner run (SpecAssign).                               *)
(***************************************************************************)
\* total size of the orders assigned to working driver i so far
AssignedLoad(i) ==
    SeqSum([k \in DOMAIN assignments |->
               IF assignments[k].driver = i THEN SizeOf(orders[assignments[k].order]) ELSE 0])

\* distance from input driver j to the destination of order k, computed afresh
FreshDistance(j, k) ==
    calculateShortestPath(graph, LocationOf(drivers[j]), orders[k].destination,
                          NoCache).result.distance

\* C7: throughout a run, the sizes of the orders assigned to a driver sum to
\* at most the capacity that driver had in the input.
C7_CapacityRespected ==
    \A i \in DOMAIN drivers : AssignedLoad(i) <= drivers[i].capacity

\* an order went to a farther driver because a nearer available one was too small
C7_Witness ==
    /\ pc = "returned"
    /\ \E k \in DOMAIN assignments : \E j \in DOMAIN drivers :
          /\ drivers[j].availability
          /\ drivers[j].capacity < SizeOf(orders[assignments[k].order])
          /\ FreshDistance(j, assignments[k].order) < assignments[k].distance
          /\ AssignedLoad(assignments[k].driver) > 0

\* C8: no driver appears in two assignments, and every assigned driver is
\* marked unavailable, whatever capacity it has left.
C8_AtMostOneAssignment ==
    /\ \A a, b \in DOMAIN assignments :
          a # b => assignments[a].driver # assignments[b].driver
    /\ \A a \in DOMAIN assignments :
          ~availableDrivers[assignments[a].driver].availability

\* an assigned driver still had room for a later order, which nobody took
C8_Witness ==
    /\ pc = "returned"
    /\ \E a \in DOMAIN assignments : \E k \in DOMAIN orders :
          /\ k > assignments[a].order
          /\ availableDrivers[assignments[a].driver].capacity >= SizeOf(orders[k])
          /\ FreshDistance(assignments[a].driver, k) < Infinity
          /\ \A b \in DOMAIN assignments : assignments[b].order # k

\* the scenario of C9: one available agent of capacity 100, two work items
\* of sizes 20 and 30 whose destinations the agent's location reaches
OneAgentTwoItems ==
    /\ Len(drivers) = 1 /\ drivers[1].availability /\ drivers[1].capacity = 100
    /\ Len(orders) = 2 /\ orders[1].size = 20 /\ orders[2].size = 30
    /\ \A k \in 1..2 :
          /\ orders[k].destination \in graph.keys
          /\ MinPathWeight(graph, LocationOf(drivers[1]), orders[k].destination) < Infinity

\* C9 (as claimed): in that scenario both work items are assigned, the second
\* at the independently computed shortest distance.
C9_BothAssigned ==
    (pc = "returned" /\ OneAgentTwoItems) =>
        /\ Len(assignments) = 2
        /\ assignments[2].distance =
              MinPathWeight(graph, LocationOf(drivers[1]), orders[2].destination)

\* C9 (amended): in that scenario only the first work item is assigned, at the
\* independently computed shortest distance; the agent is unavailable from
\* then on and the second item is skipped.
C9_OnlyFirstAssigned ==
    (pc = "returned" /\ OneAgentTwoItems) =>
        /\ Len(assignments) = 1
        /\ assignments[1].order = 1 /\ assignments[1].driver = 1
        /\ assignments[1].distance =
              MinPathWeight(graph, LocationOf(drivers[1]), orders[1].destination)

C9_Witness ==
    /\ pc = "returned" /\ OneAgentTwoItems
    /\ availableDrivers[1].capacity >= orders[2].size

CanTake(i, order) ==
    /\ availableDrivers[i].availability
    /\ availableDrivers[i].capacity >= SizeOf(order)
    /\ HasPath(graph, LocationOf(availableDrivers[i]), order.destination)

\* C11 (as claimed): processing an order adds an assignment exactly when some
\* working driver is available, has capacity >= the order's size and a
\* finite shortest-path distance to the destination; otherwise the order is
\* skipped and the planner goes on to the next order.
C11_AssignedIffFeasible ==
    [][(pc = "orders" /\ orderIdx <= Len(orders)) =>
          /\ pc' = "orders" /\ orderIdx' = orderIdx + 1
          /\ (Len(assignments') = Len(assignments) + 1) <=>
                 (\E i \in DOMAIN availableDrivers : CanTake(i, orders[orderIdx]))
      ]_vars

\* the cache the run was started with
InitialCache == IF routeCache.present THEN NewCache ELSE NoCache

\* C12: the assignments name the orders in increasing input position, each
\* at most once and only orders already processed; and after k orders the
\* list is the one the planner returns for the first k orders alone, so no
\* decision depends on a later order.
C12_InputOrder ==
    pc \in {"orders", "returned"} =>
        /\ \A a \in DOMAIN assignments :
              /\ assignments[a].order \in 1..(orderIdx - 1)
              /\ \A b \in DOMAIN assignments :
                    a < b => assignments[a].order < assignments[b].order
        /\ assignments =
              assignDriversToOrders(drivers, SubSeq(orders, 1, orderIdx - 1),
                                    graph, InitialCache).assignments

\* the driver taken by the first order was strictly nearer to the second
\* order's destination than the driver the second order got
C12_Witness ==
    /\ pc = "returned" /\ Len(assignments) = 2
    /\ assignments[1].order = 1 /\ assignments[2].order = 2
    /\ FreshDistance(assignments[1].driver, 2) < assignments[2].distance

\* max(priority, 1); an absent priority counts as 0
MaxPriorityOrOne(order) == IF order.priority > 1 THEN order.priority ELSE 1

\* C13 (as claimed): every assignment's score is its distance plus
\* 10 / max(priority, 1), for the priority of its order.
C13_ScoreFormula ==
    \A a \in DOMAIN assignments :
        assignments[a].assignmentScore =
            assignments[a].distance + (10 \div MaxPriorityOrOne(orders[assignments[a].order]))

\* C13 (amended): every assignment's score is its distance plus 10 / p, where
\* p is the priority of its order when that is present and not 0, and 1
\* otherwise (stated without division: (score - distance) * p = 10).
C13_ScoreDefaultsToOne ==
    \A a \in DOMAIN assignments :
        LET p == orders[assignments[a].order].priority
            extra == assignments[a].assignmentScore - assignments[a].distance
        IN IF p = 0 THEN extra = 10 ELSE extra * p = 10

\* an order of negative priority was assigned, with a score below its distance
C13_Witness ==
    \E a \in DOMAIN assignments :
        /\ orders[assignments[a].order].priority < 0
        /\ assignments[a].assignmentScore < assignments[a].distance
        /\ assignments[a].distance > 0

\* C14: every recorded assignment has a finite distance, a finite score and
\* a non-empty route; none has distance Infinity or an empty route.
C14_FiniteAssignments ==
    \A a \in DOMAIN assignments :
        /\ assignments[a].distance >= 0 /\ assignments[a].distance < Infinity
        /\ assignments[a].assignmentScore > -Infinity
        /\ assignments[a].assignmentScore < Infinity
        /\ assignments[a].route # <<>>

\* one order was assigned along a route of several nodes while another, whose
\* destination the only driver could not reach, left no assignment
C14_Witness ==
    /\ pc = "returned" /\ Len(drivers) = 1 /\ Len(orders) = 2
    /\ Len(assignments) = 1 /\ assignments[1].order = 2
    /\ Len(assignments[1].route) >= 2
    /\ drivers[1].availability /\ drivers[1].capacity >= SizeOf(orders[1])
    /\ ~HasPath(graph, LocationOf(drivers[1]), orders[1].destination)

AssignedLoadOrZero(driver) ==
    IF "assignedLoad" \in DOMAIN driver THEN driver.assignedLoad ELSE 0

\* C16 (as claimed): once the planner has returned, the driver record of
\* every assignment has an assignedLoad greater than 0.
C16_AssignedLoadPositive ==
    pc = "returned" =>
        \A a \in DOMAIN assignments :
            AssignedLoadOrZero(availableDrivers[assignments[a].driver]) > 0

\* the working drivers at the moment order k is processed
WorkingBefore(k) ==
    assignDriversToOrders(drivers, SubSeq(orders, 1, k - 1), graph, InitialCache).ds

\* the (source, target) pairs the run asked a shortest path for: every
\* feasible working driver's location with the destination of the order
ScannedPairs ==
    UNION {{<<LocationOf(WorkingBefore(k)[i]), orders[k].destination>> :
               i \in {j \in DOMAIN drivers : Feasible(WorkingBefore(k)[j], orders[k])}} :
           k \in DOMAIN orders}

\* C17 (as claimed): when optimizeDelivery returns with caching enabled,
\* summary.cacheHits is the number of distinct (source, target) pairs a
\* shortest path was resolved for, and is above 0 when a feasible candidate
\* was scanned; with caching disabled it is 0.
C17_CacheHitsCountsPairs ==
    pc = "optimized" =>
        IF inputs.useCache
        THEN /\ optimized.summary.cacheHits = Cardinality(ScannedPairs)
             /\ ScannedPairs # {} => optimized.summary.cacheHits > 0
        ELSE optimized.summary.cacheHits = 0

(***************************************************************************)
(* SpecEta: calls of calculateRouteAndETA on one graph, each with the      *)
(* shared cache or with none.  drivers and orders hold the driver and the  *)
(* order of the last call, result the object it returned.                  *)
(***************************************************************************)
\* (driver.currentLocation, order.destination) of the calls; "" is a driver
\* without currentLocation
EtaPairs == CachePairs \cup {<<"", "c">>, <<"", "depot">>}

EtaDriver(loc) == [currentLocation |-> loc, capacity |-> 100, availability |-> TRUE]

EtaOrder(dest) == [destination |-> dest, size |-> 20, priority |-> 1]

NoRouteInfo == [route |-> <<>>, distance |-> 0, eta |-> 0, isUnreachable |-> FALSE]

InitEta ==
    /\ graph \in CacheGraphs
    /\ routeCache = NewCache
    /\ pc = "idle" /\ start = "" /\ end = "" /\ dj = NoDijkstra
    /\ result = NoRouteInfo /\ nCalls = 0
    /\ PlanIdle

\* calculateRouteAndETA(driver, order, graph, c), start to end
EtaCall(driver, order, c) ==
    /\ pc \in {"idle", "done"} /\ nCalls < MaxCalls
    /\ nCalls' = nCalls + 1
    /\ drivers' = <<driver>> /\ orders' = <<order>>
    /\ LET r == calculateRouteAndETA(driver, order, graph, c)
       IN /\ pc' = IF r.returns THEN "done" ELSE "hung"
          /\ result' = r.info
          /\ routeCache' = IF c.present THEN r.cache ELSE routeCache
    /\ UNCHANGED <<graph, start, end, dj, availableDrivers, assignments, orderIdx,
                   inputs, optimized>>

EtaCached == \E q \in EtaPairs : EtaCall(EtaDriver(q[1]), EtaOrder(q[2]), routeCache)

EtaPlain == \E q \in EtaPairs : EtaCall(EtaDriver(q[1]), EtaOrder(q[2]), NoCache)

NextEta == EtaCached \/ EtaPlain

SpecEta == InitEta /\ [][NextEta]_vars

\* a path leads from s to t: they are the same name, or both are nodes of
\* the graph and edges lead from s to t
PathExists(g, s, t) ==
    s = t \/ (s \in g.keys /\ t \in g.keys /\ HasPath(g, s, t))

\* C18 (as claimed): every call returns; isUnreachable is true exactly when
\* no path leads from the driver's location to the destination, and then
\* the distance is 0 and the route empty; a driver already at the
\* destination gets distance 0, the one-node route and isUnreachable false.
C18_UnreachableFlag ==
    pc \in {"done", "hung"} =>
        LET loc == LocationOf(drivers[1])
            dest == orders[1].destination
        IN /\ pc = "done"
           /\ result.isUnreachable <=> ~PathExists(graph, loc, dest)
           /\ result.isUnreachable => (result.distance = 0 /\ result.route = <<>>)
           /\ loc = dest =>
                 (result.distance = 0 /\ result.route = <<loc>> /\ ~result.isUnreachable)

\* C19 (as claimed): every call returns; eta is distance / 30 * 60 rounded to
\* the nearest integer (a half going up) for the least total weight of a
\* path from the driver's location to the destination, and 0 when there is
\* no path.
C19_EtaFormula ==
    pc \in {"done", "hung"} =>
        LET loc == LocationOf(drivers[1])
            dest == orders[1].destination
            d == IF loc = dest THEN 0 ELSE MinPathWeight(graph, loc, dest)
        IN /\ pc = "done"
           /\ IF PathExists(graph, loc, dest)
              THEN /\ 120 * d - 30 < 60 * result.eta
                   /\ 60 * result.eta <= 120 * d + 30
              ELSE result.eta = 0

(***************************************************************************)
(* SpecHeap: one MinHeap (dj.heap) under any sequence of insert,           *)
(* extractMin and decreaseKey; pc names the last operation, result the     *)
(* value extractMin returned.                                              *)
(***************************************************************************)
HeapNodes == {"A", "B"}

\* extractMin() returned null
NoEntry == [node |-> JsNull, priority |-> 0]

InitHeap ==
    /\ graph = NoGraph /\ routeCache = NoCache
    /\ pc = "new" /\ start = "" /\ end = ""
    /\ dj = [NoDijkstra EXCEPT !.heap = EmptyHeap]
    /\ result = NoEntry /\ nCalls = 0
    /\ PlanIdle

\* heap.insert(node, priority)
InsertOp(node, priority) ==
    /\ Len(dj.heap.heap) < MaxHeapSize
    /\ dj' = [dj EXCEPT !.heap = HeapInsert(@, node, priority)]
    /\ pc' = "insert"
    /\ UNCHANGED <<graph, routeCache, start, end, result, nCalls>> /\ UNCHANGED planVars

\* heap.extractMin(); null on an empty heap
ExtractMinOp ==
    /\ IF IsEmpty(dj.heap)
       THEN result' = NoEntry /\ dj' = dj
       ELSE LET ex == ExtractMin(dj.heap)
            IN result' = ex.min /\ dj' = [dj EXCEPT !.heap = ex.h]
    /\ pc' = "extractMin"
    /\ UNCHANGED <<graph, routeCache, start, end, nCalls>> /\ UNCHANGED planVars

\* heap.decreaseKey(node, newPriority)
DecreaseKeyOp(node, newPriority) ==
    /\ Len(dj.heap.heap) < MaxHeapSize
    /\ dj' = [dj EXCEPT !.heap = DecreaseKey(@, node, newPriority)]
    /\ pc' = "decreaseKey"
    /\ UNCHANGED <<graph, routeCache, start, end, result, nCalls>> /\ UNCHANGED planVars

NextHeap ==
    \/ \E n \in HeapNodes, p \in 0..MaxPriority : InsertOp(n, p)
    \/ ExtractMinOp
    \/ \E n \in HeapNodes, p \in 0..MaxPriority : DecreaseKeyOp(n, p)

SpecHeap == InitHeap /\ [][NextHeap]_vars

\* C20: after any sequence of insert, extractMin and decreaseKey, the
\* priority of every entry is at most the priorities of its two children
\* (entries 2i + 1 and 2i + 2 of entry i in the array).
C20_HeapOrder ==
    LET a == dj.heap.heap
    IN \A i \in 0..(Len(a) - 1) : \A c \in {2 * i + 1, 2 * i + 2} :
           c < Len(a) => a[i + 1].priority <= a[c + 1].priority

\* a decreaseKey lowered an entry in place and sifted it up to the root of a
\* full heap that holds two entries of one node
C20_Witness ==
    LET a == dj.heap.heap
    IN /\ pc = "decreaseKey" /\ Len(a) = MaxHeapSize
       /\ a[1].priority < a[2].priority /\ a[3].priority < a[2].priority
       /\ \E i, j \in DOMAIN a : i # j /\ a[i].node = a[j].node
       /\ a[1].node \in DOMAIN dj.heap.nodeIndices
       /\ dj.heap.nodeIndices[a[1].node] = 0

\* the number of entries of the array a equal to e
EntryCount(a, e) == Cardinality({i \in DOMAIN a : a[i] = e})

\* the entries of the array a, as a set
EntrySet(a) == {a[i] : i \in DOMAIN a}

\* the array b holds the entries of a, as a multiset, less one e
RemovesOne(a, b, e) ==
    /\ Len(b) = Len(a) - 1
    /\ \A x \in EntrySet(a) \cup EntrySet(b) \cup {e} :
           EntryCount(b, x) = EntryCount(a, x) - (IF x = e THEN 1 ELSE 0)

\* C21: extractMin on a non-empty heap returns an entry whose priority is at
\* most the priority of every entry of the heap and removes that one entry,
\* the other entries staying as they were (as a multiset); on an empty heap
\* it returns null and leaves the heap unchanged.
C21_ExtractMinSmallest ==
    [][ExtractMinOp =>
         IF Len(dj.heap.heap) = 0
         THEN result' = NoEntry /\ dj'.heap = dj.heap
         ELSE /\ \A i \in DOMAIN dj.heap.heap :
                     result'.priority <= dj.heap.heap[i].priority
              /\ RemovesOne(dj.heap.heap, dj'.heap.heap, result')]_vars

\* extractMin took the smallest entry out of a full heap that held another
\* entry of the same priority and an entry of the same node
C21_Witness ==
    LET a == dj.heap.heap
    IN /\ pc = "extractMin" /\ result # NoEntry /\ Len(a) = MaxHeapSize - 1
       /\ \E i \in DOMAIN a : a[i].priority = result.priority
       /\ \E i \in DOMAIN a : a[i].node = result.node /\ a[i].priority > result.priority
       /\ \A i \in DOMAIN a : result.priority <= a[i].priority

\* decreaseKey lowers in place: the node is tracked and its tracked entry
\* has a priority above p
LowersInPlace(h, node, p) ==
    node \in DOMAIN h.nodeIndices /\ p < h.heap[h.nodeIndices[node] + 1].priority

\* C22: decreaseKey(node, p) on a node with a tracked entry of a priority
\* above p gives that entry the priority p and keeps the number of entries;
\* otherwise it adds exactly one entry (node, p); in both cases every other
\* entry keeps its node and its priority.
C22_DecreaseKey ==
    [][\A n \in HeapNodes, p \in 0..MaxPriority :
          DecreaseKeyOp(n, p) =>
             LET h == dj.heap
                 new == [node |-> n, priority |-> p]
             IN IF LowersInPlace(h, n, p)
                THEN /\ h.heap[h.nodeIndices[n] + 1].node = n
                     /\ Len(dj'.heap.heap) = Len(h.heap)
                     /\ RemovesOne(Append(h.heap, new), dj'.heap.heap,
                                   h.heap[h.nodeIndices[n] + 1])
                ELSE RemovesOne(dj'.heap.heap, h.heap, new)]_vars

\* a decreaseKey filled the heap: it added an entry of a node that already
\* had an entry of a lower priority
C22_Witness ==
    LET a == dj.heap.heap
    IN /\ pc = "decreaseKey" /\ Len(a) = MaxHeapSize
       /\ \E i, j \in DOMAIN a :
              i # j /\ a[i].node = a[j].node /\ a[i].priority < a[j].priority
                    /\ dj.heap.nodeIndices[a[j].node] = j - 1

\* v is a number above 0
PositiveNumber(v) == v.typeof = "number" /\ ~v.nan /\ v.value > 0

\* v is a number and at least 0
NonNegativeNumber(v) == v.typeof = "number" /\ ~v.nan /\ v.value >= 0

\* some driver of the inputs lacks a positive numeric capacity, or some order
\* lacks a non-empty string destination
LacksCriticalField(in) ==
    \/ \E i \in DOMAIN in.drivers : ~PositiveNumber(in.drivers[i].capacity)
    \/ \E k \in DOMAIN in.orders : in.orders[k].destination = ""

\* C23: when some driver lacks a positive numeric capacity or some order
\* lacks a non-empty string destination, optimizeDelivery throws
\* InputValidationError: it returns no result, the planner has no working
\* copy, no assignment and no current order, and no route cache was made
\* or written (no shortest-path query ran).
C23_ValidatesBeforePlanning ==
    (inputs.present /\ pc \notin {"idle", "validated", "invalid"}
                    /\ LacksCriticalField(inputs)) =>
        /\ pc = "threw"
        /\ optimized = NoOutput
        /\ drivers = NoPlan /\ orders = NoPlan /\ graph = NoGraph
        /\ availableDrivers = NoPlan /\ assignments = NoPlan /\ orderIdx = 0
        /\ routeCache = NoCache

\* optimizeDelivery threw, with caching enabled, on inputs whose only flaw
\* is a driver of capacity NaN
C23_Witness ==
    /\ pc = "threw" /\ inputs.useCache
    /\ \E i \in DOMAIN inputs.drivers : inputs.drivers[i].capacity = NaN
    /\ \A i \in DOMAIN inputs.drivers :
           inputs.drivers[i].capacity = NaN \/ PositiveNumber(inputs.drivers[i].capacity)
    /\ \A k \in DOMAIN inputs.orders : inputs.orders[k].destination # ""
    /\ \A e \in inputs.graph.edges : NonNegativeNumber(e[3])

\* C24: validateInputs throws for every graph in which some edge weight is
\* negative or is not a number (a graph it accepts has only weights that are
\* numbers and at least 0), and every graph that optimizeDelivery hands to
\* the planner and the shortest-path engine has only such weights.
C24_RejectsBadWeights ==
    /\ pc = "validated" => \A e \in inputs.graph.edges : NonNegativeNumber(e[3])
    /\ (inputs.present /\ pc \in {"orders", "returned", "optimized", "hung"}) =>
           /\ \A e \in inputs.graph.edges : NonNegativeNumber(e[3])
           /\ \A e \in graph.edges : e[3] >= 0

\* nodes that an edge of the graph points to and that are no key of it
MissingTargets(g) == {e[2] : e \in g.edges} \ g.keys

\* C25 (for distinct endpoints): on a graph in which some edge points to a
\* node that is no key of the graph, every call returns; a call whose target
\* is such a missing node returns the unreachable result; and every node of
\* a returned path is a key of the graph.
C25_MissingNodeGraceful ==
    (pc # "idle" /\ start # end /\ MissingTargets(graph) # {}) =>
        /\ pc # "hung"
        /\ pc = "done" =>
              /\ end \in MissingTargets(graph) => result = Unreachable
              /\ \A i \in DOMAIN result.path : result.path[i] \in graph.keys

\* C26: after a call of calculateShortestPath with the cache has returned,
\* the cache holds an entry under the key of the call's (start, end), and
\* that entry is the returned result: a found path, the same-node result or
\* the unreachable result.
C26_ResultCached ==
    [][\A q \in CachePairs :
          (WholeCall(q[1], q[2], routeCache) /\ pc' = "done") =>
              /\ CacheHas(routeCache', q[1], q[2])
              /\ routeCache'.map[CacheKey(q[1], q[2])] = result']_vars

\* the first call on the cache ran Dijkstra between two keys of the graph,
\* found no path, and its unreachable result is the one entry of the cache
C26_Witness ==
    /\ pc = "done" /\ nCalls = 1 /\ start # end
    /\ start \in graph.keys /\ end \in graph.keys
    /\ result = Unreachable
    /\ DOMAIN routeCache.map = {CacheKey(start, end)}
    /\ routeCache.map[CacheKey(start, end)] = Unreachable

\* C27: a call whose key has an entry in the cache returns that entry and
\* leaves the cache as it was; and over any sequence of calls every entry
\* of the cache stays, with the value it was written with.
C27_CacheHitVerbatim ==
    [][/\ \A q \in CachePairs :
             (WholeCall(q[1], q[2], routeCache) /\ CacheHas(routeCache, q[1], q[2])) =>
                 /\ pc' = "done"
                 /\ result' = routeCache.map[CacheKey(q[1], q[2])]
                 /\ routeCache' = routeCache
       /\ \A k \in DOMAIN routeCache.map :
             k \in DOMAIN routeCache'.map /\ routeCache'.map[k] = routeCache.map[k]]_vars

\* the second call was answered from the cache: it returned the one entry,
\* a path that the first call found from another start
C27_Witness ==
    /\ pc = "done" /\ nCalls = 2
    /\ DOMAIN routeCache.map = {CacheKey(start, end)}
    /\ result = routeCache.map[CacheKey(start, end)]
    /\ result.distance # Infinity /\ result.path[1] # start

\* C28: the cache key of a call is the key of no other pair of node names,
\* so that calls for different pairs never read or write the same entry.
C28_KeyPerPair ==
    pc = "done" =>
        \A q \in CachePairs :
            CacheKey(q[1], q[2]) = CacheKey(start, end) => q = <<start, end>>

\* the order at orderIdx is to be skipped: no working driver is feasible for
\* it, or no path leads from any feasible driver to its destination
ToBeSkipped ==
    \A i \in DOMAIN availableDrivers :
        Feasible(availableDrivers[i], orders[orderIdx]) =>
            ~PathExists(graph, LocationOf(availableDrivers[i]), orders[orderIdx].destination)

\* C29: processing an order that is to be skipped changes the capacity and
\* the availability of no working driver and adds no assignment, and the
\* planner goes on to the next order.
C29_SkipChangesNothing ==
    [][(pc = "orders" /\ orderIdx <= Len(orders) /\ ToBeSkipped) =>
          /\ pc' = "orders" /\ orderIdx' = orderIdx + 1
          /\ assignments' = assignments
          /\ \A i \in DOMAIN availableDrivers :
                /\ availableDrivers'[i].capacity = availableDrivers[i].capacity
                /\ availableDrivers'[i].availability = availableDrivers[i].availability]_vars

C31_RouteOfThisScan ==
    \A a \in DOMAIN assignments :
        LET driver == availableDrivers[assignments[a].driver]
            order == orders[assignments[a].order]
            route == assignments[a].route
        IN /\ IsPath(graph, route, LocationOf(driver), order.destination)
           /\ PathWeight(graph, route) = assignments[a].distance

\* the entry the next extractMin returns
NextEntry == dj.heap.heap[1]

\* C32: an iteration of the loop that extracts an entry of a node already
\* in visited, or of a priority above the node's distance, changes no
\* distance, no predecessor and not visited; any other iteration adds the
\* extracted node, which was not in visited, to visited (a node is
\* finalized at most once).
C32_FinalizedOnce ==
    [][Step =>
         IF NextEntry.node \in dj.visited
               \/ NextEntry.priority > dj.distances[NextEntry.node]
         THEN /\ dj'.distances = dj.distances /\ dj'.previous = dj.previous
              /\ dj'.visited = dj.visited
         ELSE /\ NextEntry.node \notin dj.visited
              /\ dj'.visited = dj.visited \cup {NextEntry.node}]_vars

\* the loop has finalized every key of a four-key graph and the queue is
\* empty; B was reached over A at a lower distance than directly
C32_Witness ==
    /\ pc = "loop" /\ IsEmpty(dj.heap)
    /\ dj.visited = {"depot", "A", "B", "C"}
    /\ dj.previous["B"] = "A" /\ HasEdge(graph, start, "B")

\* C33: a run of assignDriversToOrders never stays for ever in a
\* shortest-path call: no call of it goes on without returning (every
\* Dijkstra loop ends with the queue empty and the planner reaches the end
\* of the orders).
C33_PlannerTerminates == pc # "hung"

(***************************************************************************)
(* SpecLoad: the loaders called on the caller's drivers, orders and graph  *)
(* (inputs), and the caller then writing to what they returned (result).   *)
(* own tells whether an object of the result is an object of its own or    *)
(* the caller's object itself: a write to the caller's object shows in     *)
(* inputs.                                                                 *)
(***************************************************************************)
\* mutant: deepClone returns its argument, the result is the caller's object
SameObjects(obj) == FALSE

\* input.js line 12: JSON.parse builds every object of the result anew, so
\* no object of deepClone(obj) is an object of obj
NewObjects(obj) == TRUE

\* a value no input holds, written by the caller to a field of the result
Written == 999

\* loadDrivers(drivers): the elements are the object literals of lines 29-36
loadDriversCall(ds) ==
    [i \in DOMAIN ds |-> [fields |-> loadDrivers(ds)[i], own |-> TRUE]]

\* loadOrders(orders): the elements are the object literals of lines 53-60
loadOrdersCall(os) ==
    [k \in DOMAIN os |-> [fields |-> loadOrders(os)[k], own |-> TRUE]]

\* loadRoadGraph(graph): the result is clonedGraph, with depot added to it
\* when missing
loadRoadGraphCall(g) ==
    [keys |-> loadRoadGraph(g).keys, edges |-> loadRoadGraph(g).edges,
     own |-> NewObjects(g)]

NotLoaded == [drivers |-> <<>>, orders |-> <<>>, graph |-> [keys |-> {}, edges |-> {}, own |-> TRUE]]

InitLoad ==
    /\ inputs \in {in \in [present : {TRUE},
                            drivers : SeqsUpTo(OptimizeDrivers, MaxDrivers),
                            orders : SeqsUpTo(OptimizeOrders, MaxOrders),
                            graph : OptimizeGraphs, useCache : {FALSE}] :
                       validateInputs(deepClone(in))}
    /\ result = NotLoaded
    /\ graph = NoGraph /\ routeCache = NoCache
    /\ pc = "idle" /\ start = "" /\ end = "" /\ dj = NoDijkstra /\ nCalls = 0
    /\ drivers = NoPlan /\ orders = NoPlan /\ availableDrivers = NoPlan
    /\ assignments = NoPlan /\ orderIdx = 0 /\ optimized = NoOutput

\* the three loaders are called on the caller's data; depot, added to an
\* object that is the caller's own, shows in the caller's graph
LoadCall ==
    /\ pc = "idle"
    /\ pc' = "loaded"
    /\ result' = [drivers |-> loadDriversCall(inputs.drivers),
                  orders |-> loadOrdersCall(inputs.orders),
                  graph |-> loadRoadGraphCall(inputs.graph)]
    /\ inputs' = IF result'.graph.own THEN inputs
                 ELSE [inputs EXCEPT !.graph.keys = @ \cup {"depot"}]
    /\ UNCHANGED <<graph, routeCache, start, end, dj, nCalls, drivers, orders,
                   availableDrivers, assignments, orderIdx, optimized>>

\* loaded[i].capacity = 999
WriteDriver(i) ==
    /\ pc = "loaded" /\ i \in DOMAIN result.drivers
    /\ result' = [result EXCEPT !.drivers[i].fields.capacity = Written]
    /\ inputs' = IF result.drivers[i].own THEN inputs
                 ELSE [inputs EXCEPT !.drivers[i].capacity = Num(Written)]
    /\ UNCHANGED <<graph, routeCache, pc, start, end, dj, nCalls, drivers, orders,
                   availableDrivers, assignments, orderIdx, optimized>>

\* loaded[k].size = 999
WriteOrder(k) ==
    /\ pc = "loaded" /\ k \in DOMAIN result.orders
    /\ result' = [result EXCEPT !.orders[k].fields.size = Written]
    /\ inputs' = IF result.orders[k].own THEN inputs
                 ELSE [inputs EXCEPT !.orders[k].size = Written]
    /\ UNCHANGED <<graph, routeCache, pc, start, end, dj, nCalls, drivers, orders,
                   availableDrivers, assignments, orderIdx, optimized>>

\* loadedGraph[u][v] = 999, for an edge from u to v
WriteWeight(u, v) ==
    /\ pc = "loaded" /\ HasEdge(result.graph, u, v)
    /\ result' = [result EXCEPT !.graph.edges =
                     {e \in @ : ~(e[1] = u /\ e[2] = v)} \cup {<<u, v, Written>>}]
    /\ inputs' = IF result.graph.own THEN inputs
                 ELSE [inputs EXCEPT !.graph.edges =
                          {e \in @ : ~(e[1] = u /\ e[2] = v)} \cup {<<u, v, Num(Written)>>}]
    /\ UNCHANGED <<graph, routeCache, pc, start, end, dj, nCalls, drivers, orders,
                   availableDrivers, assignments, orderIdx, optimized>>

NextLoad ==
    \/ LoadCall
    \/ \E i \in 1..MaxDrivers : WriteDriver(i)
    \/ \E k \in 1..MaxOrders : WriteOrder(k)
    \/ \E u \in Names, v \in Names : WriteWeight(u, v)

SpecLoad == InitLoad /\ [][NextLoad]_vars

OneEntryPerNode(h) ==
    \A i \in 1..Len(h.heap), j \in 1..Len(h.heap) :
        h.heap[i].node = h.heap[j].node => i = j

\* C35: during a run of calculateShortestPath the queue never holds two
\* entries of one node (a decreaseKey for a queued node lowers its entry in
\* place), and no entry taken from the queue is skipped as outdated.
C35_NoStaleEntry ==
    /\ [](pc = "loop" => OneEntryPerNode(dj.heap))
    /\ [][Step => ~IsStale(dj, NextEntry)]_vars

\* B was queued at the weight of its edge from the start, and its entry was
\* then lowered to the shorter way through A while still queued
C35_Witness ==
    /\ pc = "loop" /\ HasEdge(graph, start, "B")
    /\ \E i \in 1..Len(dj.heap.heap) :
           /\ dj.heap.heap[i].node = "B"
           /\ dj.heap.heap[i].priority < Weight(graph, start, "B")
    /\ dj.previous["B"] = "A"

\* C36: with non-negative weights (the generated graphs have no others)
\* the nodes are added to visited in non-decreasing order of distance, and
\* the distance and the predecessor of a node in visited never change in
\* the rest of the run.
C36_FinalizedInOrder ==
    [][Step =>
         /\ \A n \in dj.visited :
               /\ dj'.distances[n] = dj.distances[n]
               /\ PropOf(dj'.previous, n) = PropOf(dj.previous, n)
         /\ \A n \in dj'.visited \ dj.visited :
               /\ dj'.distances[n] = dj.distances[n]
               /\ PropOf(dj'.previous, n) = PropOf(dj.previous, n)
               /\ \A m \in dj.visited : dj.distances[m] <= dj.distances[n]]_vars

\* a run that finalized A, B and C at three different distances, in that
\* order, after B's distance had been lowered
C36_Witness ==
    /\ pc = "loop" /\ IsEmpty(dj.heap)
    /\ dj.visited = {"depot", "A", "B", "C"}
    /\ dj.distances["A"] < dj.distances["B"]
    /\ dj.distances["B"] < dj.distances["C"]
    /\ HasEdge(graph, start, "B") /\ dj.distances["B"] < Weight(graph, start, "B")

\* the drivers of the drivers argument that are available
AvailableInInput == {i \in DOMAIN drivers : drivers[i].availability}

\* C37: assignDriversToOrders returns no more assignments than there are
\* orders and no more than there are available drivers in its drivers
\* argument, and summary.assignedOrders of optimizeDelivery is the number of
\* assignments the planner returned.
C37_AssignmentCount ==
    /\ pc \in {"returned", "optimized"} =>
          /\ Len(assignments) <= Len(orders)
          /\ Len(assignments) <= Cardinality(AvailableInInput)
    /\ pc = "optimized" => optimized.summary.assignedOrders = Len(assignments)

\* optimizeDelivery returned with two orders and one driver: one assignment,
\* the other order left out
C37_Witness ==
    /\ pc = "optimized"
    /\ Len(orders) = 2 /\ Cardinality(AvailableInInput) = 1
    /\ Len(assignments) = 1 /\ optimized.summary.assignedOrders = 1

\* C38: in what optimizeDelivery returns, with and without a cache, every
\* assignment has the route and the distance the planner recorded for it,
\* and isUnreachable false.
C38_RouteAsPlanned ==
    pc = "optimized" =>
       /\ Len(optimized.assignments) = Len(assignments)
       /\ \A k \in DOMAIN optimized.assignments :
             /\ optimized.assignments[k].route = assignments[k].route
             /\ optimized.assignments[k].distance = assignments[k].distance
             /\ ~optimized.assignments[k].isUnreachable

\* optimizeDelivery returned two assignments, one a route of several nodes
C38_Witness ==
    /\ pc = "optimized" /\ Len(optimized.assignments) = 2
    /\ \E k \in DOMAIN optimized.assignments :
           /\ Len(optimized.assignments[k].route) >= 2
           /\ optimized.assignments[k].distance > 0

\* C39: after any sequence of insert, extractMin and decreaseKey, every
\* pair of nodeIndices holds an index from 0 to the heap length less one,
\* and the entry at that index is an entry of the pair's node.
C39_IndicesPointAtNode ==
    \A n \in DOMAIN dj.heap.nodeIndices :
        /\ 0 <= dj.heap.nodeIndices[n]
        /\ dj.heap.nodeIndices[n] < Len(dj.heap.heap)
        /\ dj.heap.heap[dj.heap.nodeIndices[n] + 1].node = n

\* after an extractMin the heap holds two entries of A and one of B, both
\* nodes tracked, A away from the root
C39_Witness ==
    /\ pc = "extractMin" /\ Len(dj.heap.heap) = 3
    /\ DOMAIN dj.heap.nodeIndices = {"A", "B"}
    /\ Cardinality({i \in 1..3 : dj.heap.heap[i].node = "A"}) = 2
    /\ dj.heap.nodeIndices["A"] > 0

====
